---- MODULE Spec2Model ----
(***************************************************************************)
(* Model of the multi-service job dispatcher                               *)
(* (container-app/multi_service_processor.py) and of the lazy loaders it   *)
(* and ailibs/style_transfer.py keep.                                      *)
(*                                                                         *)
(* The worker process is one sequential loop; its position is pc:          *)
(*   "start"   main() before the configuration check                       *)
(*   "receive" about to call receive_messages on queue QueueOrder[qi]      *)
(*   "handle"  a message was yielded; json.loads + handler come next       *)
(*   "delete"  the handler returned; delete_message comes next             *)
(*   "end"     the for loop over the queues is finished                    *)
(*   "exited"  main() has returned                                         *)
(* The queues and the blob store are the environment: producers enqueue    *)
(* messages, a received message is hidden until its visibility timeout     *)
(* expires, and any call to the queue or to the store may raise.           *)
(* A second worker process (SpecWorkers) runs the same handlers against    *)
(* the same queues and store.  process_recommendation's selection of       *)
(* records is the operator recommend (SpecRec).                            *)
(* style_trans of ailibs/style_transfer.py is the operator style_trans; it *)
(* is called by the request handler of main.py (SpecStyle) and by the      *)
(* single-job processor container-app/processor.py (SpecSingle).  The chat *)
(* handler's answer is the operator rag_chat (SpecChat), and the polling   *)
(* loop of test_client.py is SpecClient.                                   *)
(***************************************************************************)
EXTENDS Integers, Sequences, FiniteSets, TLC

\* ---------------------------------------------------------------- bounds
NumMsgs == 2        \* Spec: messages the producers may ever enqueue
NumJobs == 3        \* job ids there are; SpecBacklog enqueues all of them
MaxInfraFail == 1   \* calls to the queues or the store that may raise
MaxBusyIdle == 1    \* Spec: empty polling cycles in a row under load
NumCallers == 2     \* threads that call a loader concurrently (SpecLoad)
MaxRows == 2        \* SpecRec: rows of the tourism table
MaxLimit == 2       \* SpecRec: largest `limit` a job asks for
MaxScale == 2       \* SpecStyle: image sides go up to MaxScale * max_size + 1
MaxCalls == 2       \* SpecStyle: calls of style_trans the server answers
MaxWords == 2       \* SpecChat: words of a question
MaxPassages == 2    \* SpecChat: passages the retrieval returns
MaxLatency == 1     \* SpecClient: seconds a status poll may take

\* ------------------------------------------------------ program constants
max_idle_time == 120

\* job_data.get('limit', 10)
default_limit == 10
\* wait_for_completion(self, job_id, max_wait_time=300, poll_interval=5)
max_wait_time == 300
poll_interval == 5
\* style_trans: max_size = 512
max_size == 512
\* style_trans: guidance_scale=min(creativity, 15)
guidance_cap == 15

\* queues.items() iterates in insertion order
QueueOrder == <<"style_transfer", "rag_chat", "recommendation">>

Services == {"style_transfer", "rag_chat", "recommendation"}

\* What a message body is, as far as the code distinguishes it:
\*   ok        valid JSON with job_id and the fields the handler reads
\*   badinput  valid JSON with job_id, a field missing or undecodable
\*   nojobid   valid JSON without job_id
\*   badjson   json.loads raises (or the decoded value is no mapping)
Kinds == {"ok", "badinput", "nojobid", "badjson"}

Msgs == 1..NumJobs
Callers == 1..NumCallers

\* job_id is unique per job: message m carries job id m
JobOf(m) == m

VARIABLES
  config_set,        \* AZURE_STORAGE_CONNECTION_STRING is set
  pc, qi,            \* position of main(), index of the queue being polled
  message_found,     \* main(): message_found
  idle_count,        \* main(): idle_count
  exit_code,         \* the status the process ended with, -1 while it runs
  cur,               \* the message the for-message body is working on, 0 if none
  mq,                \* per message: [state, queue, kind]
  store,             \* the blobs of container ai-service-results
  loaded,            \* the three *_loaded flags of MultiServiceProcessor
  ip_model,          \* style_transfer.py global ip_model: "none"/"ipadapter"/"pipe"
  last,              \* what the latest run of the for-message body did
  yielded,           \* some queue yielded a message in this polling cycle
  empty_cycles,      \* cycles since the last yield in which no queue yielded
  full_empty_cycles, \* those of them that polled every queue
  infra_fails,       \* calls to the queues or the store that raised so far
  built,             \* per service, constructions that ran to the end
  tpc, tsvc,         \* SpecLoad: per caller thread, position and service
  w2,                \* SpecWorkers: the second worker process
  late,              \* messages whose timeout expired while a worker held them
  rec,               \* SpecRec: a recommendation job and what it returned
  sreq,              \* SpecStyle: main.py's server and its latest style_trans call
  chat,              \* SpecChat: a chat job and the Result it ended in
  sj,                \* SpecSingle: the single-job processor (processor.py)
  cl                 \* SpecClient: a wait_for_completion call of test_client.py

vars == <<config_set, pc, qi, message_found, idle_count, exit_code, cur, mq,
          store, loaded, ip_model, last, yielded, empty_cycles,
          full_empty_cycles, infra_fails, built, tpc, tsvc, w2, late,
          rec, sreq, chat, sj, cl>>

dispatcher_vars == <<config_set, pc, qi, message_found, idle_count, exit_code,
                     cur, mq, store, last, yielded, empty_cycles,
                     full_empty_cycles, infra_fails>>

caller_vars == <<tpc, tsvc>>

other_vars == <<w2, late, rec>>

request_vars == <<sreq, chat, sj, cl>>

\* `last` records the latest run of the body of `for message in messages`:
\*   msg            the message, 0 if the worker is between messages
\*   invoked        a handler was called
\*   loader_ran     the handler's loader ran a construction
\*   construct      how that construction ended: none/ok/fail/ipa_fail
\*   handler_raised an exception left the handler
\*   raised         an exception reached the dispatcher's `except Exception`
\*   wrote          the Result the handler uploaded: none/completed/error
\*   cause          the first exception: none/parse/load/nojobid/business/
\*                  collab/infra
\*   store_failed   an upload_result call raised
\*   delete_called, delete_failed   delete_message was called, and raised
NoRun == [msg |-> 0, invoked |-> FALSE, loader_ran |-> FALSE,
          construct |-> "none", handler_raised |-> FALSE, raised |-> FALSE,
          wrote |-> "none", cause |-> "none", store_failed |-> FALSE,
          delete_called |-> FALSE, delete_failed |-> FALSE]

\* the second worker: where it is ("poll", "handle", "delete"), the message
\* it holds, the message it handled last and the Result it wrote for it,
\* and the messages that were hidden on the queue its latest poll found
\* empty
IdleWorker == [pc |-> "poll", cur |-> 0, msg |-> 0, wrote |-> "none",
               hidden |-> {}]

\* job_data['preferences'] without any key
NoPrefs == [has |-> {}, category |-> "c1", city |-> "y1", max_price |-> 1,
            min_rating |-> 1]

\* no recommendation job yet; the tourism table is not read
NoJob == [stage |-> "start", rows |-> <<>>, prefs |-> NoPrefs,
          limit_given |-> FALSE, limit |-> 0, out |-> <<>>]

\* an image string that decode_base64_image rejects; a decoded image is its
\* size <<width, height>>
Undecodable == <<0, 0>>

\* the arguments of a style_trans call, before any request
NoStyleArgs == [content_image_b64 |-> Undecodable,
                style_image_b64 |-> Undecodable, influence |-> 0,
                creativity |-> 0, additional_prompt |-> ""]

\* the keyword arguments of ip_model.generate when it was not called
NoGenerate == [pil_image |-> Undecodable, image |-> Undecodable,
               prompt |-> <<>>, negative_prompt |-> "", scale |-> 0,
               guidance_scale |-> 0]

\* what a style_trans call did, before any call
NoCall == [ip |-> "none", model_load_called |-> FALSE, constructed |-> FALSE,
           generated |-> FALSE, generate |-> NoGenerate, raised |-> FALSE,
           returned |-> "none", size |-> Undecodable]

\* main.py's server before its import-time model_load():
\*   stage   "boot", "idle" (no request yet), "pending" (a request is in),
\*           "answered"
\*   args    what the request handler passes to style_trans
\*   calls   style_trans calls so far; call: what the latest one did
\*   status  the HTTP status of the latest answer, 0 before any
NoRequest == [stage |-> "boot", args |-> NoStyleArgs, calls |-> 0,
              call |-> NoCall, status |-> 0]

\* no chat job yet
NoChat == [stage |-> "start", question |-> <<>>, documents |-> <<>>,
           ollama |-> FALSE, gen_ok |-> FALSE, query_ok |-> FALSE,
           up1 |-> FALSE, status |-> "none", answer |-> "",
           context_used |-> FALSE]

\* processor.py before main():
\*   pc        "start", "process" (process_job comes next), "returned",
\*             "exited"
\*   args_ok   len(sys.argv) == 2
\*   got, body, job   get_job_data returned; what it returned: "ok",
\*             "nokeys" (no content_image/style_image), "notdict"; and the
\*             arguments the payload gives style_trans
\*   c, gen_ok, up1, up2   how model_load's construction ends, whether
\*             generate returns, whether the upload of the completed / of
\*             the failed result works
\*   cause     the first exception in process_job's try block
\*   returned  "none", "True", "False", or "raised"
\*   failed_write   the upload of the failed result: none/ok/raised
\*   result    the status in <job_id>/result.json, "none" if there is none
\*   exit      the exit status, -1 while the process runs
NoSingle == [pc |-> "start", args_ok |-> FALSE, got |-> FALSE,
             body |-> "ok", job |-> NoStyleArgs, c |-> "ok",
             gen_ok |-> FALSE, up1 |-> FALSE, up2 |-> FALSE,
             cause |-> "none", returned |-> "none",
             failed_write |-> "none", result |-> "none", exit |-> -1]

\* the client before wait_for_completion:
\*   pc       "idle", "loop" (at the while test), "sleep", "done"
\*   elapsed  time.time() - start_time, in seconds
\*   polled   what the latest check_status gave: "none", a status, or
\*            "http_error" (an answer other than 200)
\*   outcome  "none" while waiting; "result": returned the result;
\*            "job_failed", "timeout", "check_failed": the exception raised
NoWait == [pc |-> "idle", elapsed |-> 0, polled |-> "none",
           outcome |-> "none"]

Init ==
  /\ config_set \in BOOLEAN
  /\ pc = "start"
  /\ qi = 1
  /\ message_found = FALSE
  /\ idle_count = 0
  /\ exit_code = -1
  /\ cur = 0
  /\ mq = [m \in Msgs |-> [state |-> "unsent", queue |-> "style_transfer",
                           kind |-> "ok"]]
  /\ store = {}
  /\ loaded = [s \in Services |-> FALSE]
  /\ ip_model = "none"
  /\ last = NoRun
  /\ yielded = FALSE
  /\ empty_cycles = 0
  /\ full_empty_cycles = 0
  /\ infra_fails = 0
  /\ tpc = [t \in Callers |-> "idle"]
  /\ tsvc = [t \in Callers |-> "style_transfer"]
  /\ built = [s \in Services |-> 0]
  /\ w2 = IdleWorker
  /\ late = {}
  /\ rec = NoJob
  /\ sreq = NoRequest
  /\ chat = NoChat
  /\ sj = NoSingle
  /\ cl = NoWait


\* ------------------------------------------------------------ result store
\* blob=f"results/{job_id}.json"
BlobName(job_id) == <<"results", job_id>>

\* variant: no Result carries an error message
ResultNoError(job_id, service, status) ==
  [job_id |-> job_id, service_type |-> service, status |-> status,
   has_error |-> FALSE]

\* result_data / error_result of the handlers; has_error: the "error" key
Result(job_id, service, status) ==
  [job_id |-> job_id, service_type |-> service, status |-> status,
   has_error |-> (status = "error")]

\* variant: the upload adds a blob and leaves an older one in place
UploadNoOverwrite(st, job_id, result_data) ==
  st \cup {[name |-> BlobName(job_id), data |-> result_data]}

\* upload_blob(json.dumps(result_data), overwrite=True)
upload_result(st, job_id, result_data) ==
  {b \in st : b.name # BlobName(job_id)}
    \cup {[name |-> BlobName(job_id), data |-> result_data]}

BlobsOf(job_id) == {b \in store : b.name = BlobName(job_id)}

\* ----------------------------------------------------------------- loaders
\* What an attempt to construct a service resource can end in.  For the
\* style-transfer model, "ipa_fail" is the IPAdapter constructor raising
\* inside model_load after the pipeline was built.
ConstructOutcomes(s) ==
  IF s = "style_transfer" THEN {"ok", "fail", "ipa_fail"} ELSE {"ok", "fail"}

\* variant: the loader constructs whatever the flag says
LoaderAlwaysRuns(flag) == TRUE

\* `if not self.<service>_loaded:` / `if ip_model is not None: return ip_model`
LoaderRuns(flag) == ~flag

\* model_load(): the value of the global ip_model when it returns or raises
model_load(ipm, c) ==
  IF ipm # "none" THEN ipm
  ELSE CASE c = "ok" -> "ipadapter"
         [] c = "ipa_fail" -> "pipe"
         [] OTHER -> "none"

model_load_raises(ipm, c) == ipm = "none" /\ c = "fail"

\* variant: every gate keeps its resource in style_transfer.py's ip_model
LoadShared(s, flag, ipm, c) ==
  IF flag
  THEN [raised |-> FALSE, flag |-> flag, ip |-> ipm, ran |-> FALSE]
  ELSE [raised |-> (c = "fail"), flag |-> (c # "fail"),
        ip |-> IF c = "fail" THEN ipm ELSE "ipadapter", ran |-> TRUE]

\* load_style_transfer_model / load_rag_system / load_recommendation_data,
\* called with the service's flag and construction ending in c
load_service(s, flag, ipm, c) ==
  IF ~LoaderRuns(flag)
  THEN [raised |-> FALSE, flag |-> flag, ip |-> ipm, ran |-> FALSE]
  ELSE IF s = "style_transfer"
       THEN [raised |-> model_load_raises(ipm, c),
             flag |-> ~model_load_raises(ipm, c),
             ip |-> model_load(ipm, c),
             ran |-> (ipm = "none")]
       ELSE [raised |-> (c = "fail"), flag |-> (c # "fail"), ip |-> ipm,
             ran |-> TRUE]

\* ------------------------------------------------------------- style_trans
\* Image sides around max_size, and the arguments a caller may pass.
Sides == {1, 3, max_size, max_size + 1}
           \cup {k * max_size + 1 : k \in 2..MaxScale}

Images(S) == {Undecodable} \cup (S \X S)

Influences == {0, 1}

Creativities == {guidance_cap - 1, guidance_cap, guidance_cap + 1}

Prompts == {"", "batik"}

StyleArgs(S) ==
  [content_image_b64 : Images(S), style_image_b64 : Images(S),
   influence : Influences, creativity : Creativities,
   additional_prompt : Prompts]

Abs(a) == IF a < 0 THEN 0 - a ELSE a

\* Python's min(a, b)
min(a, b) == IF b < a THEN b ELSE a

\* variant: the image keeps the size it was decoded with
KeepSize(size) == size

\* image.thumbnail((max_size, max_size), LANCZOS) on an image of this size:
\* an image within the box is left alone; otherwise the longer side becomes
\* max_size and the other one is, of floor and ceil of its exact scaled value,
\* the one that keeps the aspect ratio closer (floor on a tie), at least 1
thumbnail(size) ==
  LET w == size[1]
      h == size[2]
  IN IF max_size >= w /\ max_size >= h THEN size
     ELSE IF h >= w
          THEN LET f == (max_size * w) \div h
                   c == IF f * h = max_size * w THEN f ELSE f + 1
                   n == IF Abs(max_size * w - f * h)
                           <= Abs(max_size * w - c * h) THEN f ELSE c
               IN <<IF n < 1 THEN 1 ELSE n, max_size>>
          ELSE LET f == (max_size * h) \div w
                   c == IF f * w = max_size * h THEN f ELSE f + 1
                   n == IF f = 0 \/ Abs(w * f - max_size * h) * c
                                     <= Abs(w * c - max_size * h) * f
                        THEN f ELSE c
               IN <<max_size, IF n < 1 THEN 1 ELSE n>>

\* variant: whatever is cached is asked to generate
AlwaysGenerates(ipm) == TRUE

\* hasattr(ip_model, 'generate'): the IPAdapter has it, the bare pipeline not
HasGenerate(ipm) == ipm = "ipadapter"

base_prompt == "a profile picture or avatar, fun, artistic, represent indonesian culture, traditional, art, fit for poster, good for instagram\n"

closing_prompt == "suitable for sharing on social media like Instagram."

negative_prompt == "nsfw, nude, mutated, ugly, watermark, lowres, low quality, worst quality, deformed, glitch, low contrast, noisy, saturation, blurry, boring, too formal, bad anatomy, propaganda, politics."

\* the f-string pieces of `prompt`, in order
Prompt(additional_prompt) ==
  <<base_prompt, additional_prompt, ".\n", closing_prompt>>

\* generate(..., height=512, width=512)
out_side == 512

\* style_trans(**a) in a process whose global ip_model is ipm; c is how a
\* construction ends if model_load runs one, gen_ok whether generate returns
style_trans(ipm, c, a, gen_ok) ==
  LET load_raised == ipm = "none" /\ model_load_raises(ipm, c)
      ip == IF ipm = "none" THEN model_load(ipm, c) ELSE ipm
      decoded == /\ a.content_image_b64 # Undecodable
                 /\ a.style_image_b64 # Undecodable
      content_image == thumbnail(a.content_image_b64)
      style_image == thumbnail(a.style_image_b64)
      reached == ~load_raised /\ decoded
      generates == reached /\ HasGenerate(ip)
  IN [ip |-> ip,
      model_load_called |-> (ipm = "none"),
      constructed |-> (ipm = "none" /\ ~load_raised),
      generated |-> generates,
      generate |-> IF generates
                   THEN [pil_image |-> style_image, image |-> content_image,
                         prompt |-> Prompt(a.additional_prompt),
                         negative_prompt |-> negative_prompt,
                         scale |-> a.influence,
                         guidance_scale |-> min(a.creativity, guidance_cap)]
                   ELSE NoGenerate,
      raised |-> (~reached \/ (generates /\ ~gen_ok)),
      returned |-> CASE generates /\ gen_ok -> "stylized_image"
                     [] reached /\ ~generates -> "content_image"
                     [] OTHER -> "none",
      size |-> CASE generates /\ gen_ok -> <<out_side, out_side>>
                 [] reached /\ ~generates -> content_image
                 [] OTHER -> Undecodable]

\* main.py at import: try: model_load() except Exception: print(...)
server_import ==
  /\ sreq.stage = "boot"
  /\ \E c \in ConstructOutcomes("style_transfer") :
       /\ ip_model' = model_load(ip_model, c)
       /\ built' = IF ip_model = "none" /\ ~model_load_raises(ip_model, c)
                   THEN [built EXCEPT !["style_transfer"] = @ + 1] ELSE built
  /\ sreq' = [sreq EXCEPT !.stage = "idle"]
  /\ UNCHANGED <<dispatcher_vars, loaded, caller_vars, other_vars, chat,
                 sj, cl>>

\* a client posts to /style-transfer; the handler has the five arguments of
\* style_trans ready (later requests repeat them)
stytrans_request ==
  /\ sreq.stage = "idle"
  /\ \E a \in StyleArgs(Sides) : sreq' = [sreq EXCEPT !.stage = "pending",
                                                       !.args = a]
  /\ UNCHANGED <<dispatcher_vars, loaded, ip_model, built, caller_vars,
                 other_vars, chat, sj, cl>>

\* stytrans(): the style_trans call, then the upload of the image to the
\* backend; any exception is answered with status 500
stytrans ==
  /\ sreq.stage \in {"pending", "answered"}
  /\ sreq.calls < MaxCalls
  /\ \E c \in ConstructOutcomes("style_transfer"), gen_ok, saved \in BOOLEAN :
       LET r == style_trans(ip_model, c, sreq.args, gen_ok)
       IN /\ ip_model' = r.ip
          /\ built' = IF r.constructed
                      THEN [built EXCEPT !["style_transfer"] = @ + 1]
                      ELSE built
          /\ sreq' = [sreq EXCEPT !.stage = "answered", !.calls = @ + 1,
                                  !.call = r,
                                  !.status = IF ~r.raised /\ saved THEN 200
                                             ELSE 500]
  /\ UNCHANGED <<dispatcher_vars, loaded, caller_vars, other_vars, chat,
                 sj, cl>>

\* ---------------------------------------------------------------- handlers
\* style_trans's parameters, in order; none has a default
style_trans_params ==
  <<"content_image_b64", "style_image_b64", "influence", "creativity",
    "additional_prompt">>

\* process_style_transfer's call, style_trans(content_image, style_image,
\* strength=job_data.get('strength', 0.8)): the payload keys whose values go
\* in by position, those that go in by keyword, and what the images are
\* passed as (PIL images opened by the handler)
DispatcherCall ==
  [positional |-> <<"content_image", "style_image">>,
   keywords |-> [k \in {"strength"} |-> "strength"],
   images |-> "PIL"]

\* Python binds the call to the parameters: no more positional arguments than
\* parameters, every keyword names a parameter not yet filled, and no
\* parameter is left without a value
Binds(call, params) ==
  /\ Len(call.positional) <= Len(params)
  /\ \A k \in DOMAIN call.keywords :
       \E i \in (Len(call.positional) + 1)..Len(params) : params[i] = k
  /\ \A i \in (Len(call.positional) + 1)..Len(params) :
       params[i] \in DOMAIN call.keywords

\* the payload key whose value parameter p receives
Bound(call, params, p) ==
  LET i == CHOOSE j \in 1..Len(params) : params[j] = p
  IN IF i <= Len(call.positional) THEN call.positional[i]
     ELSE IF p \in DOMAIN call.keywords THEN call.keywords[p]
     ELSE "unbound"

\* the call raises before generation: a TypeError when it does not bind, and
\* decode_base64_image's ValueError when an image is not a base64 string
CallFails(call, params) == ~Binds(call, params) \/ call.images # "base64"

\* process_style_transfer's call of style_trans fails on every job; the other
\* two collaborators fail when the environment says so.
CollaboratorRaises(s, collab_ok) ==
  (s = "style_transfer" /\ CallFails(DispatcherCall, style_trans_params))
    \/ ~collab_ok

\* The first exception of the handler's try block ("none": it ran through).
TryCause(s, kind, L, collab_ok, up1) ==
  CASE L.raised -> "load"
    [] kind = "nojobid" -> "nojobid"
    [] kind = "badinput" -> "business"
    [] CollaboratorRaises(s, collab_ok) -> "collab"
    [] ~up1 -> "infra"
    [] OTHER -> "none"

\* variant: the handler's except block returns instead of re-raising
HandlerSwallows(cause) == FALSE

\* The handler's `except Exception` block ends in `raise`.
HandlerRaises(cause) == cause # "none"

\* process_style_transfer / process_rag_chat / process_recommendation for
\* a decoded body of the given kind:
\*   c          how construction ends if the loader runs it
\*   collab_ok  the opaque collaborator does not raise
\*   up1, up2   upload_result of the completed / of the error Result works
\* by a process whose flag for s is `flag`, whose ip_model is ipm, and with
\* the store holding st
handle_job(s, kind, job_id, flag, ipm, st, c, collab_ok, up1, up2) ==
  LET L == load_service(s, flag, ipm, c)
      cause == TryCause(s, kind, L, collab_ok, up1)
      wrote == CASE cause = "none" -> "completed"
                 [] kind = "nojobid" -> "none"
                 [] up2 -> "error"
                 [] OTHER -> "none"
  IN [flag |-> L.flag, ip |-> L.ip, loader_ran |-> L.ran,
      construct |-> IF L.ran THEN c ELSE "none",
      built |-> (L.ran /\ ~L.raised),
      cause |-> cause,
      raised |-> HandlerRaises(cause),
      wrote |-> wrote,
      store_failed |-> (cause = "infra" \/ (cause # "none" /\ kind # "nojobid" /\ ~up2)),
      store |-> IF wrote = "none" THEN st
                ELSE upload_result(st, job_id, Result(job_id, s, wrote))]

\* the handlers as this worker process runs them
process_job(s, kind, job_id, c, collab_ok, up1, up2) ==
  handle_job(s, kind, job_id, loaded[s], ip_model, store, c, collab_ok,
             up1, up2)

\* ------------------------------------------------- single-job processor
\* process_job's call, style_trans(content_image_b64=job_data[
\* 'content_image'], ..., additional_prompt=job_data.get(...)): all five by
\* keyword, the images as the payload's base64 strings
ProcessorCall ==
  [positional |-> <<>>,
   keywords |-> [content_image_b64 |-> "content_image",
                 style_image_b64 |-> "style_image",
                 influence |-> "influence",
                 creativity |-> "creativity",
                 additional_prompt |-> "additional_prompt"],
   images |-> "base64"]

Bodies == {"ok", "nokeys", "notdict"}

\* the payloads a job may carry: images smaller and larger than max_size
SingleJobs == StyleArgs({3, max_size + 1})

\* variant: an exception of the failed-result upload leaves process_job
SaveErrorPropagates(cause, up2) == cause # "none" /\ ~up2

\* `except Exception as save_error:` only logs
SaveErrorRaises(cause, up2) == FALSE

\* StyleTransferProcessor.process_job in a fresh process whose ip_model is
\* ipm and whose result blob holds `result`
single_process_job(ipm, result, got, body, a, c, gen_ok, up1, up2) ==
  LET loads == got /\ body # "notdict" /\ LoaderRuns(FALSE)
      load_raised == loads /\ model_load_raises(ipm, c)
      ip == IF loads THEN model_load(ipm, c) ELSE ipm
      called == got /\ body = "ok" /\ ~load_raised
                  /\ ~CallFails(ProcessorCall, style_trans_params)
      r == IF called THEN style_trans(ip, c, a, gen_ok) ELSE NoCall
      cause == CASE ~got -> "read"
                 [] body = "notdict" -> "input"
                 [] load_raised -> "load"
                 [] body = "nokeys" -> "input"
                 [] ~called \/ r.raised -> "generation"
                 [] ~up1 -> "write"
                 [] OTHER -> "none"
  IN [ip |-> ip,
      constructed |-> (loads /\ ipm = "none" /\ ~load_raised),
      cause |-> cause,
      returned |-> IF SaveErrorRaises(cause, up2) THEN "raised"
                   ELSE IF cause = "none" THEN "True" ELSE "False",
      failed_write |-> CASE cause = "none" -> "none"
                         [] up2 -> "ok"
                         [] OTHER -> "raised",
      result |-> CASE cause = "none" -> "completed"
                   [] up2 -> "failed"
                   [] OTHER -> result]

\* main() up to process_job: the usage check, then the constructor, whose
\* BlobServiceClient.from_connection_string is outside any try
single_main ==
  /\ sj.pc = "start"
  /\ \E args_ok, ctor_ok \in BOOLEAN :
       sj' = IF args_ok /\ ctor_ok
             THEN [sj EXCEPT !.pc = "process", !.args_ok = TRUE]
             ELSE [sj EXCEPT !.pc = "exited", !.args_ok = args_ok,
                             !.exit = 1]
  /\ UNCHANGED <<dispatcher_vars, loaded, ip_model, built, caller_vars,
                 other_vars, sreq, chat, cl>>

\* success = processor.process_job()
single_process ==
  /\ sj.pc = "process"
  /\ \E got, gen_ok, up1, up2 \in BOOLEAN, body \in Bodies,
        a \in SingleJobs, c \in ConstructOutcomes("style_transfer") :
       LET r == single_process_job(ip_model, sj.result, got, body, a, c,
                                   gen_ok, up1, up2)
       IN /\ ip_model' = r.ip
          /\ built' = IF r.constructed
                      THEN [built EXCEPT !["style_transfer"] = @ + 1]
                      ELSE built
          /\ sj' = [sj EXCEPT !.pc = IF r.returned = "raised" THEN "exited"
                                     ELSE "returned",
                              !.exit = IF r.returned = "raised" THEN 1
                                       ELSE -1,
                              !.got = got, !.body = body, !.job = a,
                              !.c = c, !.gen_ok = gen_ok, !.up1 = up1,
                              !.up2 = up2, !.cause = r.cause,
                              !.returned = r.returned,
                              !.failed_write = r.failed_write,
                              !.result = r.result]
  /\ UNCHANGED <<dispatcher_vars, loaded, caller_vars, other_vars, sreq,
                 chat, cl>>

\* sys.exit(0) if success else sys.exit(1)
single_exit ==
  /\ sj.pc = "returned"
  /\ sj' = [sj EXCEPT !.pc = "exited",
                      !.exit = IF sj.returned = "True" THEN 0 ELSE 1]
  /\ UNCHANGED <<dispatcher_vars, loaded, ip_model, built, caller_vars,
                 other_vars, sreq, chat, cl>>

\* ----------------------------------------------------- test_client.py
\* the statuses a poll may report
Statuses == {"pending", "processing", "error", "completed", "failed"}

\* variant: status error ends the wait like failed
FailedOrError(status) == status \in {"failed", "error"}

\* elif status_response["status"] == "failed"
JobFailed(status) == status = "failed"

\* start_time = time.time()
wait_for_completion ==
  /\ cl.pc = "idle"
  /\ cl' = [cl EXCEPT !.pc = "loop", !.elapsed = 0]
  /\ UNCHANGED <<dispatcher_vars, loaded, ip_model, built, caller_vars,
                 other_vars, sreq, chat, sj>>

\* the while test and, if it holds, check_status and the two ifs; the poll
\* takes d seconds and is answered with a status or with an HTTP error
poll_status ==
  /\ cl.pc = "loop"
  /\ IF cl.elapsed < max_wait_time
     THEN \E d \in 0..MaxLatency, answer \in Statuses \cup {"http_error"} :
            cl' = [cl EXCEPT
                     !.elapsed = @ + d,
                     !.polled = answer,
                     !.pc = IF answer \in Statuses \ {"completed"}
                               /\ ~JobFailed(answer)
                            THEN "sleep" ELSE "done",
                     !.outcome = CASE answer = "http_error" -> "check_failed"
                                   [] answer = "completed" -> "result"
                                   [] JobFailed(answer) -> "job_failed"
                                   [] OTHER -> "none"]
     ELSE cl' = [cl EXCEPT !.pc = "done", !.outcome = "timeout"]
  /\ UNCHANGED <<dispatcher_vars, loaded, ip_model, built, caller_vars,
                 other_vars, sreq, chat, sj>>

\* print(...); time.sleep(poll_interval)
sleep_interval ==
  /\ cl.pc = "sleep"
  /\ cl' = [cl EXCEPT !.pc = "loop", !.elapsed = @ + poll_interval]
  /\ UNCHANGED <<dispatcher_vars, loaded, ip_model, built, caller_vars,
                 other_vars, sreq, chat, sj>>

\* -------------------------------------------------------------- dispatcher
\* top of `while True`: message_found = False, then the first queue
NewCycle ==
  /\ pc' = "receive"
  /\ qi' = 1
  /\ message_found' = FALSE
  /\ yielded' = FALSE

\* variant: whatever ends the body of a message starts the cycle over
RestartCycle ==
  /\ pc' = "receive"
  /\ qi' = 1

\* variant: the same queue is polled again until it is empty
DrainQueue ==
  /\ pc' = "receive"
  /\ qi' = qi

\* the for loop over queues.items() moves on
NextQueue ==
  IF qi < Len(QueueOrder)
  THEN /\ pc' = "receive"
       /\ qi' = qi + 1
  ELSE /\ pc' = "end"
       /\ qi' = qi

\* variant: the exception is caught per queue and the scan moves on
InnerExcept ==
  /\ NextQueue
  /\ UNCHANGED <<message_found, yielded>>

\* `except Exception` of the while body: log, sleep(5), then the top of
\* `while True` again
OuterExcept == NewCycle

\* main() up to the polling loop
main_startup ==
  /\ pc = "start"
  /\ IF ~config_set
     THEN /\ pc' = "exited"
          /\ exit_code' = 0
          /\ UNCHANGED <<qi, message_found, yielded>>
     ELSE /\ NewCycle
          /\ UNCHANGED exit_code
  /\ UNCHANGED <<config_set, idle_count, cur, mq, store, loaded, ip_model,
                 last, empty_cycles, full_empty_cycles, infra_fails,
                 built, caller_vars,
                 other_vars, request_vars>>

\* variant: the queue hands out a message whether or not it is hidden
UndeletedIn(q) ==
  {m \in Msgs : mq[m].state \in {"visible", "invisible"} /\ mq[m].queue = q}

VisibleIn(q) == {m \in Msgs : mq[m].state = "visible" /\ mq[m].queue = q}

HiddenIn(q) == {m \in Msgs : mq[m].state = "invisible" /\ mq[m].queue = q}

\* variant: a received message leaves idle_count as it is
IdleKept(n) == n

\* idle_count = 0 on a received message
IdleAfterReceive(n) == 0

\* queue_client.receive_messages(max_messages=1, visibility_timeout=600)
receive_messages ==
  /\ pc = "receive"
  /\ LET q == QueueOrder[qi] IN
     \/ \* the call raises: `except Exception` of the while body, sleep(5)
        /\ infra_fails < MaxInfraFail
        /\ infra_fails' = infra_fails + 1
        /\ empty_cycles' = IF yielded THEN empty_cycles ELSE empty_cycles + 1
        /\ OuterExcept
        /\ last' = NoRun
        /\ UNCHANGED <<idle_count, cur, mq, full_empty_cycles>>
     \/ \* a message is yielded and hidden for the visibility timeout
        \E m \in VisibleIn(q) :
          /\ mq' = [mq EXCEPT ![m].state = "invisible"]
          /\ message_found' = TRUE
          /\ idle_count' = IdleAfterReceive(idle_count)
          /\ cur' = m
          /\ pc' = "handle"
          /\ last' = [NoRun EXCEPT !.msg = m]
          /\ yielded' = TRUE
          /\ empty_cycles' = 0
          /\ full_empty_cycles' = 0
          /\ UNCHANGED <<qi, infra_fails>>
     \/ \* the queue has nothing to give
        /\ VisibleIn(q) = {}
        /\ NextQueue
        /\ last' = NoRun
        /\ UNCHANGED <<message_found, idle_count, cur, mq, yielded,
                       empty_cycles, full_empty_cycles, infra_fails>>
  /\ UNCHANGED <<config_set, exit_code, store, loaded, ip_model, built,
                 caller_vars,
                 other_vars, request_vars>>

\* variant: delete_message runs whether or not the handler raised
DeleteAlways(raised) == TRUE

\* after the handler: delete_message, unless an exception skipped it
DeleteFollows(raised) == ~raised

\* the try body of `for message in messages` up to delete_message
process_message ==
  /\ pc = "handle"
  /\ LET m == cur
         s == mq[m].queue
     IN IF mq[m].kind = "badjson"
        THEN \* json.loads raises; the handler is never called
             /\ last' = [last EXCEPT !.raised = TRUE, !.cause = "parse"]
             /\ cur' = 0
             /\ NextQueue
             /\ UNCHANGED <<store, loaded, ip_model, infra_fails, built>>
        ELSE \E c \in ConstructOutcomes(s), collab_ok, up1, up2 \in BOOLEAN :
               LET r == process_job(s, mq[m].kind, JobOf(m), c, collab_ok,
                                    up1, up2)
               IN /\ r.store_failed => infra_fails < MaxInfraFail
                  /\ infra_fails' = IF r.store_failed THEN infra_fails + 1
                                    ELSE infra_fails
                  /\ built' = IF r.built THEN [built EXCEPT ![s] = @ + 1]
                              ELSE built
                  /\ loaded' = [loaded EXCEPT ![s] = r.flag]
                  /\ ip_model' = r.ip
                  /\ store' = r.store
                  /\ last' = [last EXCEPT !.invoked = TRUE,
                                          !.loader_ran = r.loader_ran,
                                          !.construct = r.construct,
                                          !.handler_raised = r.raised,
                                          !.raised = r.raised,
                                          !.wrote = r.wrote,
                                          !.cause = r.cause,
                                          !.store_failed = r.store_failed]
                  /\ IF DeleteFollows(r.raised)
                     THEN /\ pc' = "delete"
                          /\ UNCHANGED <<qi, cur>>
                     ELSE /\ cur' = 0
                          /\ NextQueue
  /\ UNCHANGED <<config_set, message_found, idle_count, exit_code, mq, yielded,
                 empty_cycles, full_empty_cycles, caller_vars,
                 other_vars, request_vars>>

\* queue_client.delete_message(message); it may itself raise
delete_message ==
  /\ pc = "delete"
  /\ \E ok \in BOOLEAN :
       /\ ~ok => infra_fails < MaxInfraFail
       /\ infra_fails' = IF ok THEN infra_fails ELSE infra_fails + 1
       /\ mq' = IF ok THEN [mq EXCEPT ![cur].state = "deleted"] ELSE mq
       /\ last' = [last EXCEPT !.delete_called = TRUE, !.delete_failed = ~ok,
                               !.raised = ~ok]
  /\ cur' = 0
  /\ NextQueue
  /\ UNCHANGED <<config_set, message_found, idle_count, exit_code, store,
                 loaded, ip_model, yielded, empty_cycles, full_empty_cycles,
                 built, caller_vars,
                 other_vars, request_vars>>

\* variant: the comparison is strict
IdleLimitPassed(n) == n > max_idle_time

\* `if idle_count >= max_idle_time: break`
IdleLimitReached(n) == n >= max_idle_time

\* after the for loop: the idle bookkeeping, then sleep(1) or break
end_cycle ==
  /\ pc = "end"
  /\ idle_count' = IF message_found THEN idle_count ELSE idle_count + 1
  /\ empty_cycles' = IF yielded THEN empty_cycles ELSE empty_cycles + 1
  /\ full_empty_cycles' = IF yielded THEN full_empty_cycles
                          ELSE full_empty_cycles + 1
  /\ IF ~message_found /\ IdleLimitReached(idle_count')
     THEN /\ pc' = "exited"
          /\ exit_code' = 0
          /\ UNCHANGED <<qi, message_found, yielded>>
     ELSE /\ NewCycle
          /\ UNCHANGED exit_code
  /\ last' = NoRun
  /\ UNCHANGED <<config_set, cur, mq, store, loaded, ip_model, infra_fails,
                 built, caller_vars,
                 other_vars, request_vars>>

\* ------------------------------------------------------------- environment
\* a producer puts job m on queue q with a body of kind k
Enqueue(m, q, k) ==
  /\ mq[m].state = "unsent"
  /\ \A n \in Msgs : n < m => mq[n].state # "unsent"
  /\ mq' = [mq EXCEPT ![m] = [state |-> "visible", queue |-> q, kind |-> k]]
  /\ UNCHANGED <<config_set, pc, qi, message_found, idle_count, exit_code,
                 cur, store, loaded, ip_model, last, yielded, empty_cycles,
                 full_empty_cycles, infra_fails, built, caller_vars,
                 other_vars, request_vars>>

\* the visibility timeout of a received, undeleted message expires
VisibilityTimeout ==
  \E m \in Msgs :
    /\ mq[m].state = "invisible"
    /\ mq' = [mq EXCEPT ![m].state = "visible"]
    /\ UNCHANGED <<config_set, pc, qi, message_found, idle_count, exit_code,
                   cur, store, loaded, ip_model, last, yielded, empty_cycles,
                   full_empty_cycles, infra_fails, built, caller_vars,
                 other_vars, request_vars>>

\* ------------------------------------------------ process_recommendation
\* The columns of tourism_df the handler reads, over small value sets.
Categories == {"c1", "c2"}
Cities == {"y1", "y2"}
Prices == {1, 2}
Ratings == {1, 2}

TourismRows ==
  [Category : Categories, City : Cities, Price : Prices, Rating : Ratings]

Tables == UNION {[1..n -> TourismRows] : n \in 0..MaxRows}

PrefKeys == {"category", "city", "max_price", "min_rating"}

\* preferences: `has` are the keys present; an absent key's field is unused
Preferences ==
  {p \in [has : SUBSET PrefKeys, category : Categories, city : Cities,
          max_price : Prices, min_rating : Ratings] :
     \A k \in PrefKeys \ p.has : p[k] = NoPrefs[k]}

\* the boolean mask of one filter
Keep(r, k, p) ==
  CASE k = "category" -> r.Category = p.category
    [] k = "city" -> r.City = p.city
    [] k = "max_price" -> r.Price <= p.max_price
    [] k = "min_rating" -> r.Rating >= p.min_rating

\* `if '<key>' in preferences: filtered_df = filtered_df[mask]`
ApplyFilter(rows, k, p) ==
  IF k \in p.has THEN SelectSeq(rows, LAMBDA r : Keep(r, k, p)) ELSE rows

\* the order in which the handler applies the filters
FilterOrder == <<"category", "city", "max_price", "min_rating">>

RECURSIVE ApplyFilters(_, _, _)
ApplyFilters(rows, order, p) ==
  IF order = <<>> THEN rows
  ELSE ApplyFilters(ApplyFilter(rows, Head(order), p), Tail(order), p)

\* variant: the first n rows in table order
FirstRows(n, rows) ==
  IF n <= 0 THEN <<>>
  ELSE SubSeq(rows, 1, IF n < Len(rows) THEN n ELSE Len(rows))

\* the first row of maximal Rating
FirstMaxIndex(rows) ==
  CHOOSE i \in DOMAIN rows :
    /\ \A j \in DOMAIN rows : rows[j].Rating <= rows[i].Rating
    /\ \A j \in 1..(i - 1) : rows[j].Rating < rows[i].Rating

\* DataFrame.nlargest(n, 'Rating') (keep='first'): the n rows of largest
\* Rating in descending order, ties in table order; none for n <= 0
RECURSIVE nlargest(_, _)
nlargest(n, rows) ==
  IF n <= 0 \/ rows = <<>> THEN <<>>
  ELSE LET i == FirstMaxIndex(rows)
       IN <<rows[i]>> \o nlargest(n - 1, SubSeq(rows, 1, i - 1)
                                          \o SubSeq(rows, i + 1, Len(rows)))

\* recommendation_list of process_recommendation
recommend(rows, p, limit) == nlargest(limit, ApplyFilters(rows, FilterOrder, p))

\* load_recommendation_data: tourism_df = pd.read_csv(...)
rec_load ==
  /\ rec.stage = "start"
  /\ \E t \in Tables : rec' = [rec EXCEPT !.stage = "loaded", !.rows = t]
  /\ UNCHANGED <<dispatcher_vars, loaded, ip_model, built, caller_vars, w2,
                 late, request_vars>>

\* process_recommendation on a job with these preferences and this limit
\* (job_data.get('limit', 10))
rec_job ==
  /\ rec.stage = "loaded"
  /\ \E p \in Preferences, given \in BOOLEAN, l \in 0..MaxLimit :
       /\ ~given => l = 0
       /\ LET limit == IF given THEN l ELSE default_limit
          IN rec' = [stage |-> "done", rows |-> rec.rows, prefs |-> p,
                     limit_given |-> given, limit |-> limit,
                     out |-> recommend(rec.rows, p, limit)]
  /\ UNCHANGED <<dispatcher_vars, loaded, ip_model, built, caller_vars, w2,
                 late, request_vars>>

\* ------------------------------------------------------- process_rag_chat
\* A question is a sequence of words; what is kept of a word is its spelling.
Words == {"Borobudur", "borobudurnya", "MONAS", "monas", "candi"}

Questions == UNION {[1..n -> Words] : n \in 0..MaxWords}

\* str.lower() on a word
lower(w) ==
  CASE w = "Borobudur" -> "borobudur"
    [] w = "MONAS" -> "monas"
    [] OTHER -> w

\* `kw in word` for a lower-case word
Within(kw, w) ==
  \/ kw = w
  \/ kw = "borobudur" /\ w = "borobudurnya"

\* `kw in question.lower()`
In(kw, question) == \E i \in DOMAIN question : Within(kw, lower(question[i]))

borobudur_answer == "Borobudur adalah candi Buddha terbesar di dunia yang terletak di Magelang, Jawa Tengah. Candi ini dibangun pada abad ke-8 hingga ke-9 oleh Dinasti Syailendra."

monas_answer == "Monumen Nasional (Monas) adalah monumen setinggi 132 meter yang terletak di Jakarta Pusat. Monas didirikan untuk mengenang perjuangan kemerdekaan Indonesia."

clarification == "Maaf, saya memerlukan informasi lebih lanjut untuk menjawab pertanyaan Anda tentang budaya Indonesia. Bisa tolong berikan pertanyaan yang lebih spesifik?"

\* what ollama_client.generate returns as response['response']
model_answer == "response"

\* variant: monas is looked for first
MonasFirst(question) ==
  IF In("monas", question) THEN monas_answer
  ELSE IF In("borobudur", question) THEN borobudur_answer
  ELSE clarification

generate_fallback_response(question) ==
  IF In("borobudur", question) THEN borobudur_answer
  ELSE IF In("monas", question) THEN monas_answer
  ELSE clarification

\* results['documents']: empty, or one list of passages for the one query
\* text; a passage is kept as its length
PassageLists == UNION {[1..n -> {0, 1}] : n \in 0..MaxPassages}

Retrievals == {<<>>} \cup {<<d>> : d \in PassageLists}

RECURSIVE TotalLen(_)
TotalLen(d) == IF d = <<>> THEN 0 ELSE Head(d) + TotalLen(Tail(d))

\* len("\n".join(d))
JoinLen(d) == IF d = <<>> THEN 0 ELSE TotalLen(d) + (Len(d) - 1)

\* len(context)
ContextLen(documents) ==
  IF documents # <<>> THEN JoinLen(documents[1]) ELSE 0

\* the try block of process_rag_chat once the RAG system is loaded:
\*   ollama    load_rag_system could import the client (None otherwise)
\*   gen_ok    ollama_client.generate returns
\*   query_ok  rag_collection.query returns
\*   up1       upload_result of the completed Result works
rag_chat(question, documents, ollama, gen_ok, query_ok, up1) ==
  LET answer == IF ollama
                THEN IF gen_ok THEN model_answer
                     ELSE generate_fallback_response(question)
                ELSE generate_fallback_response(question)
  IN IF query_ok /\ up1
     THEN [status |-> "completed", answer |-> answer,
           context_used |-> (ContextLen(documents) > 0)]
     ELSE [status |-> "error", answer |-> "", context_used |-> FALSE]

\* process_rag_chat on a job with a job_id and this question
chat_job ==
  /\ chat.stage = "start"
  /\ \E question \in Questions, documents \in Retrievals,
        ollama, gen_ok, query_ok, up1 \in BOOLEAN :
       LET r == rag_chat(question, documents, ollama, gen_ok, query_ok, up1)
       IN chat' = [stage |-> "done", question |-> question,
                   documents |-> documents, ollama |-> ollama,
                   gen_ok |-> gen_ok, query_ok |-> query_ok, up1 |-> up1,
                   status |-> r.status, answer |-> r.answer,
                   context_used |-> r.context_used]
  /\ UNCHANGED <<dispatcher_vars, loaded, ip_model, built, caller_vars,
                 other_vars, sreq, sj, cl>>

\* ----------------------------------------------------- a second worker
\* Another worker process runs the same main() on the same queues and
\* store, with loader flags of its own.  Of its polling loop the model keeps
\* the body of `for message in messages`; the queue it polls next is any.
Held(m) ==
  \/ cur = m /\ pc \in {"handle", "delete"}
  \/ w2.cur = m /\ w2.pc \in {"handle", "delete"}

\* its receive_messages(max_messages=1, visibility_timeout=600) on queue q
other_receive ==
  /\ w2.pc = "poll"
  /\ \E q \in Services :
       \/ \E m \in VisibleIn(q) :
            /\ mq' = [mq EXCEPT ![m].state = "invisible"]
            /\ w2' = [pc |-> "handle", cur |-> m, msg |-> m, wrote |-> "none",
                      hidden |-> {}]
       \/ /\ VisibleIn(q) = {}
          /\ w2' = [w2 EXCEPT !.hidden = HiddenIn(q)]
          /\ UNCHANGED mq
  /\ UNCHANGED <<config_set, pc, qi, message_found, idle_count, exit_code,
                 cur, store, loaded, ip_model, last, yielded, empty_cycles,
                 full_empty_cycles, infra_fails, built, caller_vars, late, rec,
                 request_vars>>

\* its json.loads and handler call
other_process ==
  /\ w2.pc = "handle"
  /\ LET m == w2.cur
         s == mq[m].queue
     IN IF mq[m].kind = "badjson"
        THEN /\ w2' = [w2 EXCEPT !.pc = "poll", !.cur = 0]
             /\ UNCHANGED <<store, infra_fails>>
        ELSE \E flag \in BOOLEAN, c \in ConstructOutcomes(s),
                collab_ok, up1, up2 \in BOOLEAN :
               LET r == handle_job(s, mq[m].kind, JobOf(m), flag, "none",
                                   store, c, collab_ok, up1, up2)
               IN /\ r.store_failed => infra_fails < MaxInfraFail
                  /\ infra_fails' = IF r.store_failed THEN infra_fails + 1
                                    ELSE infra_fails
                  /\ store' = r.store
                  /\ w2' = IF DeleteFollows(r.raised)
                           THEN [w2 EXCEPT !.pc = "delete", !.wrote = r.wrote]
                           ELSE [w2 EXCEPT !.pc = "poll", !.cur = 0,
                                           !.wrote = r.wrote]
  /\ UNCHANGED <<config_set, pc, qi, message_found, idle_count, exit_code,
                 cur, mq, loaded, ip_model, last, yielded, empty_cycles,
                 full_empty_cycles, built, caller_vars, late, rec,
                 request_vars>>

\* its delete_message
other_delete ==
  /\ w2.pc = "delete"
  /\ \E ok \in BOOLEAN :
       /\ ~ok => infra_fails < MaxInfraFail
       /\ infra_fails' = IF ok THEN infra_fails ELSE infra_fails + 1
       /\ mq' = IF ok THEN [mq EXCEPT ![w2.cur].state = "deleted"] ELSE mq
  /\ w2' = [w2 EXCEPT !.pc = "poll", !.cur = 0]
  /\ UNCHANGED <<config_set, pc, qi, message_found, idle_count, exit_code,
                 cur, store, loaded, ip_model, last, yielded, empty_cycles,
                 full_empty_cycles, built, caller_vars, late, rec,
                 request_vars>>

\* the worker process is killed (status 128 + SIGKILL) while it holds a
\* message: in the handler, or between the handler's return and
\* delete_message
worker_crash ==
  /\ pc \in {"handle", "delete"}
  /\ pc' = "exited"
  /\ exit_code' = 137
  /\ cur' = 0
  /\ UNCHANGED <<config_set, qi, message_found, idle_count, mq, store, loaded,
                 ip_model, last, yielded, empty_cycles, full_empty_cycles,
                 infra_fails, built, caller_vars, other_vars,
                 request_vars>>

\* a visibility timeout expires, be the message still held by a worker or not
HeldTimeout ==
  \E m \in Msgs :
    /\ mq[m].state = "invisible"
    /\ mq' = [mq EXCEPT ![m].state = "visible"]
    /\ late' = IF Held(m) THEN late \cup {m} ELSE late
    /\ UNCHANGED <<config_set, pc, qi, message_found, idle_count, exit_code,
                   cur, store, loaded, ip_model, last, yielded, empty_cycles,
                   full_empty_cycles, infra_fails, built, caller_vars, w2, rec,
                   request_vars>>

\* ---------------------------------------------------------- specifications
\* Spec: the worker under load.  Producers enqueue up to NumMsgs jobs of
\* any kind, job m on the queue QueueOfJob(m); idle stretches are followed
\* for MaxBusyIdle cycles.
QueueOfJob(m) == QueueOrder[((m - 1) % Len(QueueOrder)) + 1]

Producers == \E m \in 1..NumMsgs, k \in Kinds : Enqueue(m, QueueOfJob(m), k)

BusyEndCycle == end_cycle /\ idle_count' <= MaxBusyIdle

Next ==
  \/ main_startup
  \/ receive_messages
  \/ process_message
  \/ delete_message
  \/ BusyEndCycle
  \/ Producers
  \/ VisibilityTimeout

Spec == Init /\ [][Next]_vars

\* SpecIdle: the worker with a single job, followed through idle stretches
\* of any length, up to the idle shutdown.
OneProducer == \E q \in Services, k \in Kinds : Enqueue(1, q, k)

NextIdle ==
  \/ main_startup
  \/ receive_messages
  \/ process_message
  \/ delete_message
  \/ end_cycle
  \/ OneProducer
  \/ VisibilityTimeout

SpecIdle == Init /\ [][NextIdle]_vars

\* SpecBacklog: the worker starts on queues that already hold well-formed
\* jobs, every job on any queue, several on the same queue; it is followed
\* while the visibility timeouts of what it receives run.
BacklogKinds == {"ok"}

Backlog ==
  \E m \in Msgs, q \in Services, k \in BacklogKinds :
    /\ pc = "start"
    /\ Enqueue(m, q, k)

NextBacklog ==
  \/ main_startup
  \/ receive_messages
  \/ process_message
  \/ delete_message
  \/ BusyEndCycle
  \/ Backlog

SpecBacklog == Init /\ [][NextBacklog]_vars

\* SpecRetry: SpecIdle with the scheduling the code has: the worker's loop
\* keeps running (every pass ends in sleep and goes on) and time passes, so
\* a running visibility timeout expires.
WorkerStep ==
  \/ main_startup
  \/ receive_messages
  \/ process_message
  \/ delete_message
  \/ end_cycle

SpecRetry ==
  /\ Init
  /\ [][NextIdle]_vars
  /\ WF_vars(WorkerStep)
  /\ WF_vars(VisibilityTimeout)

\* SpecWorkers: two worker processes on the same queues and store, and one
\* job; the first worker may be killed while it holds the message.
NextWorkers ==
  \/ main_startup
  \/ receive_messages
  \/ process_message
  \/ delete_message
  \/ BusyEndCycle
  \/ worker_crash
  \/ other_receive
  \/ other_process
  \/ other_delete
  \/ OneProducer
  \/ HeldTimeout

SpecWorkers == Init /\ [][NextWorkers]_vars

\* SpecRec: process_recommendation's selection on every table of up to
\* MaxRows rows, every set of preferences and every limit up to MaxLimit.
NextRec ==
  \/ rec_load
  \/ rec_job

\* the worker's configuration plays no part here
InitRec == Init /\ config_set

SpecRec == InitRec /\ [][NextRec]_vars

\* SpecLoad: NumCallers threads of one process call the loaders at the same
\* time (as the request threads of main.py do with model_load through
\* style_trans).  A caller is at
\*   "idle"       outside any loader
\*   "checked"    past `if not self.<service>_loaded:`, which it found unset
\*   "loading"    in model_load past `if ip_model is not None:`
\*   "returning"  construction is done; the flag assignment comes next
caller_check(t, s) ==
  /\ tpc[t] = "idle"
  /\ tsvc' = [tsvc EXCEPT ![t] = s]
  /\ tpc' = [tpc EXCEPT ![t] = IF LoaderRuns(loaded[s]) THEN "checked"
                                ELSE "idle"]
  /\ UNCHANGED <<other_vars, request_vars, dispatcher_vars, loaded, ip_model, built>>

\* model_load(): `if ip_model is not None: return ip_model`
caller_model_load(t) ==
  /\ tpc[t] = "checked"
  /\ tsvc[t] = "style_transfer"
  /\ tpc' = [tpc EXCEPT ![t] = IF LoaderRuns(ip_model # "none") THEN "loading"
                                ELSE "returning"]
  /\ UNCHANGED <<other_vars, request_vars, dispatcher_vars, loaded, ip_model, built, tsvc>>

\* the construction itself, ending in c
caller_construct(t, c) ==
  /\ \/ tpc[t] = "checked" /\ tsvc[t] # "style_transfer"
     \/ tpc[t] = "loading"
  /\ c \in ConstructOutcomes(tsvc[t])
  /\ IF c = "fail"
     THEN /\ tpc' = [tpc EXCEPT ![t] = "idle"]
          /\ UNCHANGED <<ip_model, built>>
     ELSE /\ tpc' = [tpc EXCEPT ![t] = "returning"]
          /\ built' = [built EXCEPT ![tsvc[t]] = @ + 1]
          /\ ip_model' = IF tsvc[t] = "style_transfer"
                         THEN model_load("none", c) ELSE ip_model
  /\ UNCHANGED <<other_vars, request_vars, dispatcher_vars, loaded, tsvc>>

\* self.<service>_loaded = True
caller_set_flag(t) ==
  /\ tpc[t] = "returning"
  /\ loaded' = [loaded EXCEPT ![tsvc[t]] = TRUE]
  /\ tpc' = [tpc EXCEPT ![t] = "idle"]
  /\ UNCHANGED <<other_vars, request_vars, dispatcher_vars, ip_model, built, tsvc>>

NextLoad ==
  \E t \in Callers :
    \/ \E s \in Services : caller_check(t, s)
    \/ caller_model_load(t)
    \/ \E c \in {"ok", "fail", "ipa_fail"} : caller_construct(t, c)
    \/ caller_set_flag(t)

SpecLoad == Init /\ [][NextLoad]_vars


\* SpecStyle: the server of main.py loads the model at import and answers
\* style-transfer requests; every action is a call into style_transfer.py.
NextStyle ==
  \/ server_import
  \/ stytrans_request
  \/ stytrans

InitStyle == Init /\ config_set

SpecStyle == InitStyle /\ [][NextStyle]_vars

\* SpecChat: process_rag_chat on every question of up to MaxWords words and
\* every retrieval of up to MaxPassages passages.
NextChat == chat_job

InitChat == Init /\ config_set

SpecChat == InitChat /\ [][NextChat]_vars

\* SpecSingle: one run of processor.py on one job.
NextSingle ==
  \/ single_main
  \/ single_process
  \/ single_exit

InitSingle == Init /\ config_set

SpecSingle == InitSingle /\ [][NextSingle]_vars

\* SpecClient: one wait_for_completion call with the default max_wait_time
\* and poll_interval; the client keeps running until the call has ended.
NextClient ==
  \/ wait_for_completion
  \/ poll_status
  \/ sleep_interval

InitClient == Init /\ config_set

SpecClient == InitClient /\ [][NextClient]_vars /\ WF_vars(NextClient)

\* ------------------------------------------------------------------ claims
HasJobId(m) == mq[m].kind \in {"ok", "badinput"}

LastQueue == mq[last.msg].queue

InLoop == pc \in {"receive", "handle", "delete", "end"}

\* the polling loop ended through `break`
IdleExit == pc = "exited" /\ config_set

\* C1: when resource loading or the collaborator fails in a handler (job_id
\* present, store reachable), the handler persists an error Result and
\* returns normally: no exception leaves the handler.
C1_HandlerNeverRaises ==
  (/\ last.invoked
   /\ last.cause \in {"load", "collab"}
   /\ HasJobId(last.msg)
   /\ ~last.store_failed)
    => (last.wrote = "error" /\ ~last.handler_raised)

\* C2: after a business error the error Result is persisted and the
\* dispatcher goes on to delete the message, which is therefore never
\* handled a second time.
C2_BusinessErrorIsFinal ==
  /\ (/\ last.invoked
      /\ last.cause \in {"business", "collab"}
      /\ ~last.store_failed)
       => (last.wrote = "error" /\ (pc = "delete" \/ last.delete_called))
  /\ \A m \in Msgs :
       (mq[m].kind = "badinput" /\ BlobsOf(JobOf(m)) # {})
         => ~(cur = m /\ pc = "handle")

\* C3: when upload_result or delete_message raises while a message is
\* handled, the exception reaches the dispatcher, delete_message is not
\* (successfully) applied, and the message stays in its queue, hidden
\* until its visibility timeout expires.
C3_InfraErrorLeavesMessage ==
  /\ (last.store_failed \/ last.delete_failed)
       => (last.raised /\ mq[last.msg].state \in {"invisible", "visible"})
  /\ last.store_failed => (~last.delete_called /\ pc # "delete")

\* a message is received again although its completed Result is stored:
\* the delete_message that followed its handler had raised
C3_Redelivered ==
  /\ pc = "handle"
  /\ infra_fails > 0
  /\ \E b \in BlobsOf(JobOf(cur)) : b.data.status = "completed"

\* C4: delete_message is called for a message iff its handler returned
\* without raising, and then after the handler's Result write; a message
\* becomes deleted only by that call.
C4_DeleteIffHandlerReturned ==
  /\ [](/\ (pc = "delete" \/ last.delete_called)
            => (/\ last.invoked
                /\ ~last.handler_raised
                /\ last.wrote # "none"
                /\ BlobsOf(JobOf(last.msg)) # {})
        /\ (last.invoked /\ ~last.handler_raised)
            => (pc = "delete" \/ last.delete_called))
  /\ [][\A m \in Msgs :
          (mq[m].state # "deleted" /\ mq'[m].state = "deleted")
            => (pc = "delete" /\ cur = m /\ last.msg = m
                /\ last.wrote # "none")]_vars

C4_Deleted ==
  /\ last.delete_called
  /\ ~last.delete_failed
  /\ mq[last.msg].state = "deleted"
  /\ last.wrote = "completed"

C6_SingleConstruction == \A s \in Services : built[s] <= 1

\* C7: a flag that is set stays set, a loader whose flag is set constructs
\* nothing, and no service is constructed more than once.
C7_LoadedOnce ==
  /\ [](\A s \in Services : built[s] <= 1)
  /\ [][\A s \in Services :
          loaded[s] => (loaded'[s] /\ built'[s] = built[s])]_vars

C7_CachedCall ==
  /\ last.invoked
  /\ ~last.loader_ran
  /\ loaded[LastQueue]
  /\ built[LastQueue] = 1

\* C8: a construction that fails leaves nothing cached: the flag stays
\* unset, no model is stored, and the error reaches the loader's caller.
C8_NoFailureCached ==
  (last.loader_ran /\ last.construct # "ok")
    => (~loaded[LastQueue] /\ ip_model = "none" /\ last.cause = "load")

\* C9: the loop ends on idleness exactly when max_idle_time polling cycles
\* in a row have polled every queue and got nothing: no earlier, and no
\* cycle is started once that count is reached.
C9_IdleShutdownExact ==
  /\ IdleExit => (/\ idle_count = max_idle_time
                  /\ full_empty_cycles = max_idle_time
                  /\ ~message_found)
  /\ (IdleExit /\ infra_fails = 0) => empty_cycles = max_idle_time
  /\ InLoop => (idle_count < max_idle_time
                /\ full_empty_cycles < max_idle_time)

C9_NeverYieldedExit ==
  /\ IdleExit
  /\ \A m \in Msgs : mq[m].state = "unsent"
  /\ infra_fails = 0

\* C10 (as stated): idle_count is the number of polling cycles since the
\* last received message in which no queue yielded a message.
C10_IdleCountsEmptyCycles == idle_count = empty_cycles

\* C10 (amended): idle_count is the number of polling cycles since the last
\* received message that polled every queue and got nothing; a received
\* message sets it to zero whatever becomes of the message, and a cycle cut
\* short by receive_messages raising leaves it unchanged.
C10_IdleCountsFullEmptyCycles ==
  /\ idle_count = full_empty_cycles
  /\ message_found => idle_count = 0
  /\ empty_cycles - full_empty_cycles \in 0..infra_fails

C10_CountedAroundAbandonedCycle ==
  /\ mq[1].state \in {"invisible", "deleted"}
  /\ last.msg = 0
  /\ idle_count > 0
  /\ empty_cycles > full_empty_cycles

\* C11: the queues are visited in the order style_transfer, rag_chat,
\* recommendation in every polling cycle; a visit receives one message of
\* the visited queue if one is waiting there and then moves on to the next
\* queue, whatever else waits on the queue just visited; a queue is passed
\* without a message only if none is waiting on it.
C11_FixedOrderOnePerQueue ==
  /\ [](pc \in {"handle", "delete"} => mq[cur].queue = QueueOrder[qi])
  /\ [][/\ qi' # qi => (qi' = qi + 1 \/ qi' = 1)
        /\ (pc # "end" /\ pc' = "end") => qi = Len(QueueOrder)
        /\ (pc = "receive" /\ pc' = "handle")
             => (/\ qi' = qi
                 /\ cur' \in VisibleIn(QueueOrder[qi])
                 /\ \A m \in Msgs : m # cur' => mq'[m] = mq[m])
        /\ (/\ pc = "receive"
            /\ pc' = "end" \/ qi' # qi
            /\ infra_fails' = infra_fails)
             => VisibleIn(QueueOrder[qi]) = {}
        /\ (pc \in {"handle", "delete"} /\ pc' \notin {"handle", "delete"})
             => \/ pc' = "receive" /\ qi' = qi + 1
                \/ pc' = "end" /\ qi' = qi /\ qi = Len(QueueOrder)
        /\ (pc = "handle" /\ pc' = "delete") => (qi' = qi /\ cur' = cur)]_vars

\* a rag_chat job is being handled in the first cycle while style_transfer,
\* which gave one job in this cycle, still has a job waiting
C11_ReceivedBehindBusyQueue ==
  /\ pc = "handle"
  /\ mq[cur].queue = "rag_chat"
  /\ infra_fails = 0
  /\ \E m \in Msgs : mq[m].queue = "style_transfer" /\ mq[m].state = "visible"
  /\ Cardinality({m \in Msgs : /\ mq[m].queue = "style_transfer"
                               /\ mq[m].state = "invisible"}) = 1
  /\ \A m \in Msgs : mq[m].state # "unsent"

\* C12: however often and by whichever worker a job message is processed,
\* every Result written for it carries the message's job_id and the
\* service_type of its queue, and each write leaves exactly one object at
\* results/<job_id>.json, the one just written.
C12_SameResultOneObject ==
  /\ [](/\ \A b \in store :
             \E m \in Msgs : /\ b.name = BlobName(JobOf(m))
                             /\ b.data.job_id = JobOf(m)
                             /\ b.data.service_type = mq[m].queue
        /\ \A m \in Msgs : Cardinality(BlobsOf(JobOf(m))) <= 1)
  /\ [][store' # store
         => \E m \in Msgs, st \in {"completed", "error"} :
              /\ store' = {b \in store : b.name # BlobName(JobOf(m))}
                            \cup {[name |-> BlobName(JobOf(m)),
                                   data |-> Result(JobOf(m), mq[m].queue, st)]}
              /\ \/ pc = "handle" /\ cur = m /\ last'.wrote = st
                 \/ w2.pc = "handle" /\ w2.cur = m /\ w2'.wrote = st]_vars

\* the first worker was killed between its handler's return and
\* delete_message; the second worker then processed the same message and
\* wrote its Result over the first
C12_ProcessedTwice ==
  /\ pc = "exited"
  /\ exit_code = 137
  /\ last.msg # 0
  /\ last.wrote = "completed"
  /\ w2.msg = last.msg
  /\ w2.wrote # "none"
  /\ Cardinality(BlobsOf(JobOf(last.msg))) = 1

\* C13: once a Result for a job_id is in the store, no later handling of
\* the same message replaces it by a Result of another status.
C13_FirstResultIsFinal ==
  [][\A m \in Msgs :
       \A b \in BlobsOf(JobOf(m)) :
         \A b2 \in (BlobsOf(JobOf(m)))' : b2.data.status = b.data.status]_vars

\* a message whose handling raises on every delivery: its body is not
\* what the handler reads, or it is a style_transfer job
Poison(m) ==
  /\ mq[m].state # "unsent"
  /\ mq[m].kind # "ok" \/ mq[m].queue = "style_transfer"

\* C14: a message whose handling raises on every delivery is never deleted;
\* a handling that raised leaves the message as it was before (hidden, no
\* attempt recorded on it, on the same queue); and as long as the worker
\* runs, each such handling is followed by another one of the same message.
C14_PoisonRetriedForever ==
  /\ [](\A m \in Msgs : Poison(m) => mq[m].state # "deleted")
  /\ [][\A m \in Msgs :
          (pc = "handle" /\ cur = m /\ last'.raised)
            => (mq'[m] = mq[m] /\ mq[m].state \in {"invisible", "visible"})]_vars
  /\ \A m \in Msgs :
       (Poison(m) /\ last.msg = m /\ last.raised /\ pc # "handle")
         ~> ((pc = "handle" /\ cur = m) \/ pc = "exited")

\* a poison message is handled again: the error Result of an earlier
\* delivery is in the store
C14_HandledAgain ==
  /\ pc = "handle"
  /\ Poison(cur)
  /\ BlobsOf(JobOf(cur)) # {}

\* C15: a worker receives a message only while it is visible, and receiving
\* hides it; a hidden message becomes visible again only by its timeout
\* expiring; so two workers hold the same message at the same time only
\* if its timeout expired while the first of them held it.
C15_NoSharedMessageBeforeTimeout ==
  /\ [](\A m \in Msgs :
          (/\ cur = m /\ pc \in {"handle", "delete"}
           /\ w2.cur = m /\ w2.pc \in {"handle", "delete"}) => m \in late)
  /\ [][\A m \in Msgs :
          /\ (cur' = m /\ cur # m) \/ (w2'.cur = m /\ w2.cur # m)
               => (mq[m].state = "visible" /\ mq'[m].state = "invisible")
          /\ (mq[m].state = "invisible" /\ mq'[m].state = "visible")
               => (/\ pc' = pc
                   /\ w2' = w2
                   /\ cur' = cur
                   /\ Held(m) => m \in late')]_vars

\* the second worker polled the queue of the message the first worker
\* holds, within the message's timeout, and got nothing
C15_HiddenFromOther ==
  /\ pc = "handle"
  /\ cur \in w2.hidden
  /\ mq[cur].state = "invisible"
  /\ cur \notin late
  /\ w2.pc = "poll"

\* C16: the worker has at most one job in hand: a queue is polled only
\* when no message is held, a handler is invoked only for the message held
\* and once per delivery, and the message is let go only after its handler
\* has returned or raised (and, if it returned, delete_message was called).
C16_OneJobAtATime ==
  /\ [](/\ pc \in {"handle", "delete"} <=> cur # 0
        /\ pc = "handle" => (last.msg = cur /\ ~last.invoked)
        /\ pc = "delete"
             => (last.msg = cur /\ last.invoked /\ ~last.handler_raised))
  /\ [][/\ (pc = "receive" /\ pc' = "handle") => (cur = 0 /\ cur' # 0)
        /\ (last'.invoked /\ ~last.invoked)
             => (pc = "handle" /\ last'.msg = cur)
        /\ (cur # 0 /\ cur' # cur)
             => (/\ cur' = 0
                 /\ pc' \in {"receive", "end"}
                 /\ last'.raised \/ last'.delete_called)]_vars

\* the handler of job 2 is about to start; job 1 was handled before it and
\* its Result is written
C16_SecondJobAfterFirst ==
  /\ pc = "handle"
  /\ cur = 2
  /\ mq[1].state = "invisible"
  /\ BlobsOf(JobOf(1)) # {}

\* C17: the worker exits with status 0 when the idle threshold is reached;
\* when the connection configuration is missing it exits with a nonzero
\* status and has polled no queue.
C17_ExitStatus ==
  pc = "exited"
    => IF config_set
       THEN exit_code = 0 /\ idle_count = max_idle_time
       ELSE /\ exit_code # 0
            /\ idle_count = 0
            /\ \A m \in Msgs : mq[m].state \in {"unsent", "visible"}

\* C18: every object in the store lies at results/<job_id>.json for the
\* job_id of a message of the queues, has status completed or error,
\* carries the service_type of that message's queue, and has an error
\* message exactly when its status is error; the store changes only in the
\* handler of the message held, and only at that message's key.
C18_ResultShape ==
  /\ [](\A b \in store :
          /\ \E m \in Msgs : /\ b.name = BlobName(JobOf(m))
                              /\ b.data.job_id = JobOf(m)
                              /\ b.data.service_type = mq[m].queue
          /\ b.data.status \in {"completed", "error"}
          /\ b.data.has_error <=> b.data.status = "error")
  /\ [][store' # store
         => (/\ pc = "handle"
             /\ \A b \in store' \ store :
                  /\ b.name = BlobName(JobOf(cur))
                  /\ b.data.service_type = QueueOrder[qi]
                  /\ b.data.status = last'.wrote
             /\ \A b \in store \ store' : b.name = BlobName(JobOf(cur)))]_vars

\* the store holds an error Result and a completed Result
C18_BothStatuses ==
  /\ \E b \in store : b.data.status = "error" /\ b.data.has_error
  /\ \E b \in store : b.data.status = "completed" /\ ~b.data.has_error

QueueIndex(q) == CHOOSE i \in 1..Len(QueueOrder) : QueueOrder[i] = q

\* C19: when the body of a message raises (in json.loads, in the handler or
\* in delete_message), the loop goes on with the next queue of the same
\* cycle, which is polled and gives its job if it has one; the process does
\* not end, and no other message, other job's Result or other service's
\* loader flag is touched.
C19_FailureIsolated ==
  /\ [](/\ (pc = "receive" /\ last.msg # 0 /\ last.raised)
             => qi = QueueIndex(LastQueue) + 1
        /\ (last.msg # 0 /\ last.raised) => pc \in {"receive", "end"})
  /\ [][/\ (pc \in {"handle", "delete"} /\ last'.raised)
             => (/\ \/ pc' = "receive" /\ qi' = qi + 1
                    \/ pc' = "end" /\ qi' = qi /\ qi = Len(QueueOrder)
                 /\ exit_code' = exit_code
                 /\ message_found' = message_found
                 /\ idle_count' = idle_count
                 /\ \A m \in Msgs \ {cur} :
                      /\ mq'[m] = mq[m]
                      /\ (BlobsOf(JobOf(m)))' = BlobsOf(JobOf(m))
                 /\ \A s \in Services \ {QueueOrder[qi]} :
                      loaded'[s] = loaded[s])
        /\ (/\ pc = "receive" /\ last.raised
            /\ VisibleIn(QueueOrder[qi]) # {}
            /\ pc' # pc \/ qi' # qi
            /\ infra_fails' = infra_fails)
             => (pc' = "handle" /\ cur' \in VisibleIn(QueueOrder[qi]))]_vars

\* in the cycle in which the style_transfer job failed, a job of a later
\* queue has been handled to a completed Result
C19_LaterQueueServed ==
  /\ pc = "delete"
  /\ qi > 1
  /\ last.wrote = "completed"
  /\ infra_fails = 0
  /\ idle_count = 0
  /\ \E m \in Msgs :
       /\ mq[m].queue = "style_transfer"
       /\ mq[m].state = "invisible"
       /\ \E b \in BlobsOf(JobOf(m)) : b.data.status = "error"
  /\ Cardinality({m \in Msgs : mq[m].state = "invisible"}) = 2
  /\ \A m \in Msgs : mq[m].state \in {"visible", "invisible"}

\* the rows that satisfy every supplied filter at once
Matching(rows, p) ==
  SelectSeq(rows, LAMBDA r : \A k \in p.has : Keep(r, k, p))

\* the rows of a sequence with Rating above v
Above(rows, v) == Cardinality({i \in DOMAIN rows : rows[i].Rating > v})

Occurrences(rows, r) == Cardinality({i \in DOMAIN rows : rows[i] = r})

Least(a, b) == IF a < b THEN a ELSE b

\* every order of the four filters
FilterOrders ==
  {[i \in DOMAIN FilterOrder |-> f[FilterOrder[i]]] : f \in Permutations(PrefKeys)}

\* C20: the records returned for a recommendation job are rows of the
\* table that satisfy all supplied filters (an absent key constrains
\* nothing), whatever the order the filters are applied in; they are sorted
\* by rating descending, they are the best-rated of the matching rows, and
\* there are min(limit, number of matching rows) of them, limit being 10
\* when the job names none.
C20_Recommendation ==
  rec.stage = "done"
    => LET out == rec.out
           p == rec.prefs
           matching == Matching(rec.rows, p)
       IN /\ \A i \in DOMAIN out : \A k \in p.has : Keep(out[i], k, p)
          /\ \A r \in TourismRows :
               Occurrences(out, r) <= Occurrences(matching, r)
          /\ \A o \in FilterOrders :
               ApplyFilters(rec.rows, o, p) = matching
          /\ \A i, j \in DOMAIN out : i < j => out[i].Rating >= out[j].Rating
          /\ Len(out) = Least(rec.limit, Len(matching))
          /\ \A v \in Ratings :
               Above(out, v) = Least(rec.limit, Above(matching, v))
          /\ ~rec.limit_given => rec.limit = default_limit

\* a city filter alone with limit 2 on a table with two matching rows, the
\* lower-rated one first in the table: both are returned, best first
C20_CityTopTwo ==
  /\ rec.stage = "done"
  /\ rec.prefs.has = {"city"}
  /\ rec.limit_given
  /\ rec.limit = 2
  /\ Len(rec.rows) = 2
  /\ rec.rows[1].Rating < rec.rows[2].Rating
  /\ Len(rec.out) = 2
  /\ rec.out[1] = rec.rows[2]

\* ---- C21
Longest(size) == IF size[1] < size[2] THEN size[2] ELSE size[1]

\* `out` is `size` brought within max_size: no side longer than max_size, no
\* side grown, an image already within the bound untouched, and the aspect
\* ratio kept to within one pixel on the shorter side
Downscaled(size, out) ==
  /\ Longest(out) <= max_size
  /\ out[1] >= 1 /\ out[2] >= 1
  /\ out[1] <= size[1] /\ out[2] <= size[2]
  /\ Longest(size) <= max_size => out = size
  /\ Longest(size) > max_size => Longest(out) = max_size
  /\ Abs(out[1] * size[2] - out[2] * size[1]) < Longest(size)

\* C21: whenever style_trans calls generate, the content image and the style
\* image it passes are the decoded inputs downscaled to at most max_size on
\* the longest side, aspect ratio kept, never enlarged.
C21_BothImagesDownscaled ==
  sreq.call.generated =>
    /\ Downscaled(sreq.args.content_image_b64, sreq.call.generate.image)
    /\ Downscaled(sreq.args.style_image_b64, sreq.call.generate.pil_image)

\* C21 witness: generate was called with a content image that came in too
\* wide and a style image that was already within the bound
C21_WideContentSmallStyle ==
  /\ sreq.call.generated
  /\ sreq.args.content_image_b64 = <<2 * max_size + 1, 3>>
  /\ sreq.call.generate.image = <<max_size, 2>>
  /\ sreq.args.style_image_b64 = <<3, max_size>>
  /\ sreq.call.generate.pil_image = <<3, max_size>>

\* ---- C22
\* the latest handler run was process_style_transfer and got as far as its
\* call of style_trans
StyleCallReached ==
  /\ last.msg # 0
  /\ last.invoked
  /\ LastQueue = "style_transfer"
  /\ last.cause \in {"none", "collab", "infra"}

\* C22: when the dispatcher's style-transfer handler calls style_trans, the
\* call reaches generation with the payload's influence as style strength,
\* its creativity as guidance scale and its additional_prompt in the prompt.
C22_PayloadPassedThrough ==
  StyleCallReached =>
    /\ ~CallFails(DispatcherCall, style_trans_params)
    /\ Bound(DispatcherCall, style_trans_params, "influence") = "influence"
    /\ Bound(DispatcherCall, style_trans_params, "creativity") = "creativity"
    /\ Bound(DispatcherCall, style_trans_params, "additional_prompt")
         = "additional_prompt"

\* ---- C23
\* some word of the question is, whatever its case, or contains the keyword
Asks(question, kw) ==
  \E i \in DOMAIN question :
    \/ question[i] \in {"Borobudur", "borobudurnya"} /\ kw = "borobudur"
    \/ question[i] \in {"MONAS", "monas"} /\ kw = "monas"

\* C23: a chat job whose language client is missing, or whose generate call
\* raises, ends completed whenever retrieval and upload work, with the canned
\* Borobudur answer if the question mentions borobudur, else the Monas answer
\* if it mentions monas, else the request for clarification; and every
\* completed chat Result has context_used true exactly when the joined
\* passages are a nonempty string.
C23_FallbackAnswer ==
  chat.stage = "done" =>
    /\ (chat.query_ok /\ chat.up1) <=> chat.status = "completed"
    /\ (chat.status = "completed" /\ (~chat.ollama \/ ~chat.gen_ok)) =>
         /\ Asks(chat.question, "borobudur") => chat.answer = borobudur_answer
         /\ (~Asks(chat.question, "borobudur") /\ Asks(chat.question, "monas"))
              => chat.answer = monas_answer
         /\ (~Asks(chat.question, "borobudur") /\ ~Asks(chat.question, "monas"))
              => chat.answer = clarification
    /\ chat.status = "completed" =>
         (chat.context_used <=>
            /\ chat.documents # <<>>
            /\ \/ Len(chat.documents[1]) >= 2
               \/ \E i \in DOMAIN chat.documents[1] : chat.documents[1][i] > 0)

\* C23 witness: generate raised on a question that names Monas before
\* Borobudur; the job completed with the Borobudur answer and context_used
C23_BothKeywordsGenerateRaised ==
  /\ chat.stage = "done"
  /\ chat.ollama /\ ~chat.gen_ok
  /\ chat.question = <<"MONAS", "Borobudur">>
  /\ chat.status = "completed"
  /\ chat.answer = borobudur_answer
  /\ chat.context_used

\* ---- C24
\* C24: a step changes the loaded flag or the construction count of a service
\* only while handling a job of that service, and ip_model only while
\* handling a style-transfer job; a handler run whose loader failed leaves
\* every flag, every count and ip_model as they were.
C24_GatesIndependent ==
  [][/\ \A s \in Services :
          (loaded'[s] # loaded[s] \/ built'[s] # built[s])
            => (pc = "handle" /\ mq[cur].queue = s /\ last'.invoked)
     /\ (ip_model' # ip_model)
          => (pc = "handle" /\ mq[cur].queue = "style_transfer")
     /\ (pc = "handle" /\ last'.cause = "load")
          => (loaded' = loaded /\ built' = built /\ ip_model' = ip_model)
    ]_vars

\* C24 witness: the style-transfer loader failed on an earlier job (error
\* Result, flag unset, no model), and a chat job has just completed
C24_ChatCompletesAfterStyleLoadFailed ==
  /\ last.msg # 0
  /\ LastQueue = "rag_chat"
  /\ last.loader_ran
  /\ last.wrote = "completed"
  /\ loaded["rag_chat"]
  /\ ~loaded["style_transfer"]
  /\ ip_model = "none"
  /\ \E b \in store : /\ b.data.service_type = "style_transfer"
                       /\ b.data.status = "error"

\* ---- C25
\* the body of message m is not JSON, or decodes to a job without job_id
NoJobIdIn(m) == mq[m].kind \in {"badjson", "nojobid"}

\* C25: a message whose body is not JSON or has no job_id never has a Result
\* in the store and is never deleted; each time it is handled the exception
\* reaches the dispatcher's per-message except clause (json.loads raising
\* before any handler is called, or the handler raising without an upload),
\* delete_message is skipped and the loop moves on to the next queue.
C25_NoJobIdNeverAnswered ==
  /\ [](\A m \in Msgs : (mq[m].state # "unsent" /\ NoJobIdIn(m)) =>
          /\ BlobsOf(JobOf(m)) = {}
          /\ mq[m].state # "deleted")
  /\ [][(pc = "handle" /\ pc' # "handle" /\ NoJobIdIn(cur)) =>
          /\ last'.raised
          /\ last'.wrote = "none"
          /\ ~last'.delete_called
          /\ mq[cur].kind = "badjson" => ~last'.invoked
          /\ mq[cur].kind = "nojobid" => last'.handler_raised
          /\ pc' \in {"receive", "end"}
          /\ store' = store
          /\ mq' = mq
       ]_vars

\* C25 witness: a job without job_id is in the handler again, after an
\* earlier delivery loaded its service, and the store is still empty
C25_NoJobIdRedelivered ==
  /\ pc = "handle"
  /\ mq[cur].kind = "nojobid"
  /\ loaded[mq[cur].queue]
  /\ \A n \in Msgs : n # cur => mq[n].state = "unsent"
  /\ store = {}

\* ---- C26
\* this step is a receive_messages call that raises
ReceiveRaises == pc = "receive" /\ infra_fails' > infra_fails

\* C26: a receive_messages call that raises ends the polling cycle there: the
\* next poll is of the first queue in a new cycle, no queue later in the
\* order is polled in between, idle_count keeps its value and the worker
\* does not exit; the idle bookkeeping runs only after a scan in which the
\* last queue was polled without raising, and only that bookkeeping raises
\* idle_count or ends the loop.
C26_ReceiveFailureAbandonsCycle ==
  /\ [][ReceiveRaises =>
          /\ pc' = "receive"
          /\ qi' = 1
          /\ ~message_found'
          /\ idle_count' = idle_count
          /\ exit_code' = exit_code
          /\ mq' = mq
       ]_vars
  /\ [][(pc' = "end" /\ pc # "end") =>
          (qi = Len(QueueOrder) /\ ~ReceiveRaises)]_vars
  /\ [][(idle_count' > idle_count \/ (pc' = "exited" /\ InLoop))
          => pc = "end"]_vars

\* C26 witness: the worker shut down idle after one more message-less cycle
\* than the threshold, one of them cut short by receive_messages raising
C26_ShutdownDelayedByFailure ==
  /\ IdleExit
  /\ \A m \in Msgs : mq[m].state = "unsent"
  /\ infra_fails = 1
  /\ full_empty_cycles = max_idle_time
  /\ empty_cycles = max_idle_time + 1

\* ---- C27
\* this step is a style_trans call
StyleTransCalled == sreq'.calls > sreq.calls

\* C27: model_load ends normally when only the IPAdapter construction
\* fails, with the bare pipeline stored in ip_model; from then on ip_model
\* stays the pipeline and nothing is constructed again, and every style_trans
\* call made with the pipeline cached calls no generate and, when both images
\* decode, returns the content image downscaled to max_size.
C27_FallbackCached ==
  /\ [](/\ ~model_load_raises("none", "ipa_fail")
        /\ model_load("none", "ipa_fail") = "pipe"
        /\ \A c \in ConstructOutcomes("style_transfer") :
             model_load("pipe", c) = "pipe" /\ ~model_load_raises("pipe", c))
  /\ [][(ip_model = "none" /\ ip_model' = "pipe") =>
          built'["style_transfer"] = built["style_transfer"] + 1]_vars
  /\ [][ip_model = "pipe" => (ip_model' = "pipe" /\ built' = built)]_vars
  /\ [][(StyleTransCalled /\ ip_model' = "pipe") =>
          LET r == sreq'.call
              decoded == /\ sreq.args.content_image_b64 # Undecodable
                         /\ sreq.args.style_image_b64 # Undecodable
          IN /\ ~r.generated
             /\ r.generate = NoGenerate
             /\ decoded => /\ ~r.raised
                           /\ r.returned = "content_image"
                           /\ Downscaled(sreq.args.content_image_b64, r.size)
             /\ ~decoded => (r.raised /\ r.returned = "none")
       ]_vars

\* C27 witness: the second style_trans call after the IPAdapter failed at
\* import returned the content image, 1025x3 downscaled to 512x2, out of the
\* one construction there ever was
C27_SecondCallFallsBack ==
  /\ sreq.calls = 2
  /\ ip_model = "pipe"
  /\ built["style_transfer"] = 1
  /\ ~sreq.call.model_load_called
  /\ sreq.args.content_image_b64 = <<2 * max_size + 1, 3>>
  /\ sreq.call.returned = "content_image"
  /\ sreq.call.size = <<max_size, 2>>
  /\ sreq.status = 200

\* ---- C28
\* nothing the job needs failed: the input was read and carries both images,
\* the model loaded, the images decode, generate (if there is an IPAdapter
\* to call it on) returned, and the completed result was uploaded
AllWentWell ==
  /\ sj.got /\ sj.body = "ok"
  /\ sj.c # "fail"
  /\ sj.job.content_image_b64 # Undecodable
  /\ sj.job.style_image_b64 # Undecodable
  /\ sj.c = "ok" => sj.gen_ok
  /\ sj.up1

\* C28: process_job never raises; it returns True exactly when nothing
\* failed, and then result.json holds status completed; otherwise it returns
\* False after one attempt to write status failed to the same key, whose own
\* failure is swallowed; the process exits 0 exactly when process_job
\* returned True and 1 in every other case, a wrong argument count included.
C28_SingleJobOutcome ==
  /\ sj.returned \in {"none", "True", "False"}
  /\ sj.returned # "none" => (sj.returned = "True" <=> AllWentWell)
  /\ sj.returned = "True" =>
       (sj.result = "completed" /\ sj.failed_write = "none")
  /\ sj.returned = "False" =>
       /\ sj.failed_write = (IF sj.up2 THEN "ok" ELSE "raised")
       /\ sj.result = (IF sj.up2 THEN "failed" ELSE "none")
  /\ sj.pc = "exited" =>
       /\ sj.exit \in {0, 1}
       /\ sj.exit = 0 <=> sj.returned = "True"
       /\ ~sj.args_ok => (sj.exit = 1 /\ sj.returned = "none")
  /\ sj.pc # "exited" => sj.exit = -1

\* C28 witness: generation failed, the upload of the failed result failed
\* too, and the process still ended with process_job returning False, exit 1
C28_FailedWriteSwallowed ==
  /\ sj.pc = "exited"
  /\ sj.cause = "generation"
  /\ sj.failed_write = "raised"
  /\ sj.returned = "False"
  /\ sj.result = "none"
  /\ sj.exit = 1

\* ---- C29
\* C29 (as stated): wait_for_completion ends in one of three ways: the
\* result returned, the job-failed error, or TimeoutError.
C29_ThreeOutcomes ==
  cl.pc = "done" => cl.outcome \in {"result", "job_failed", "timeout"}

\* C29 (amended): wait_for_completion always ends, in one of four ways: it
\* returns the result, only after a poll reported completed; it raises the
\* job-failed error, only after a poll reported failed; it raises
\* check_status's own exception, only after a poll was answered with an HTTP
\* error; it raises TimeoutError, only once max_wait_time has elapsed.  Any
\* other reported status, error included, is followed by a sleep of
\* poll_interval and another poll, never by a result.
C29_FourOutcomes ==
  /\ [](/\ cl.pc = "done" <=> cl.outcome # "none"
        /\ cl.outcome \in {"none", "result", "job_failed", "timeout",
                            "check_failed"}
        /\ cl.outcome = "result" => cl.polled = "completed"
        /\ cl.outcome = "job_failed" => cl.polled = "failed"
        /\ cl.outcome = "check_failed" => cl.polled = "http_error"
        /\ cl.outcome = "timeout" =>
             /\ cl.elapsed >= max_wait_time
             /\ cl.polled \notin {"completed", "failed", "http_error"}
        /\ cl.pc = "sleep" =>
             cl.polled \in {"pending", "processing", "error"})
  /\ [][cl.pc = "sleep" =>
          (cl'.pc = "loop" /\ cl'.elapsed = cl.elapsed + poll_interval)]_vars
  /\ [][(cl.pc = "loop" /\ cl'.polled \in {"pending", "processing", "error"}
           /\ cl.elapsed < max_wait_time)
          => (cl'.pc = "sleep" /\ cl'.outcome = "none")]_vars
  /\ <>(cl.pc = "done")

\* C29 witness: the job was in status error at the latest poll and the wait
\* ended in TimeoutError after max_wait_time
C29_TimedOutOnError ==
  /\ cl.pc = "done"
  /\ cl.outcome = "timeout"
  /\ cl.polled = "error"
  /\ cl.elapsed >= max_wait_time

====
